---- MODULE Spec2Model ----
(***************************************************************************)
(* Kalories Kuisine: the stock / transaction core of the Django            *)
(* application (core/models.py, core/forms.py, core/views.py,              *)
(* core/admin.py, core/management/commands/setup_initial_data.py).         *)
(*                                                                         *)
(* The shared store is the relational database.  No view or model method   *)
(* opens a database transaction (there is no transaction.atomic in the     *)
(* sources), so every ORM query is committed on its own (Django's          *)
(* autocommit default) and the queries of concurrent request workers       *)
(* interleave freely.  One action of this module is one query of a         *)
(* request together with the local computation that follows it.            *)
(*                                                                         *)
(* Money is kept in whole hundredths (DecimalField, decimal_places=2).     *)
(***************************************************************************)
EXTENDS Integers, Sequences, FiniteSets, TLC

VARIABLES
    stock,          \* table core_stock: category -> row, rows of existing categories only
    price,          \* table core_price: category -> price, rows of existing categories only
    stockRecords,   \* table core_stockrecord, in insertion order
    transactions,   \* table core_transaction: set of rows
    nextPk,         \* next primary key of core_transaction
    today,          \* the calendar day timezone.now() falls in
    customers,      \* table core_customer: the primary keys of its rows
    req             \* per request worker: position and local variables of its request

vars == <<stock, price, stockRecords, transactions, nextPk, today, customers, req>>

----------------------------------------------------------------------------
(* Bounds of the model *)

MaxDay == 1         \* calendar days 0..MaxDay
MaxTx == 3          \* primary keys handed out to Transaction rows
MaxStock == 2       \* crates ever added to stock by concurrent workers
MaxSeqStock == 3    \* crates ever added to stock by the sequential worker

Workers == {"w1", "w2"}

\* The worker of the sequential specification.
Sequential == {"w1"}

----------------------------------------------------------------------------
(* Schema *)

Categories == {"SMALL", "MEDIUM", "LARGE"}

DefaultThreshold == 50

DefaultPrice(c) ==
    CASE c = "SMALL" -> 120000
      [] c = "MEDIUM" -> 150000
      [] c = "LARGE" -> 180000

DefaultQuantity(c) == 0

\* Prices a price update or a caller of Transaction.save may supply.
PriceValues == {99950}

Quantities == 0..2

\* The customers registered (CustomerCreateView) when the runs of the model
\* start, and the one the sales of the model are made to where customers
\* play no part.
Registered == {1, 2}

Regulars == {1}

\* Categories the requests of the model name; the rows of the remaining
\* categories exist and are never touched.
Requested == {"SMALL", "MEDIUM"}

\* The category bought and sold where sales are modelled.
Traded == {"SMALL"}

----------------------------------------------------------------------------
(* Invoice numbers: f"INV-{date_str}-{last_today + 1:04d}" *)

RECURSIVE Digits(_)
Digits(n) == IF n < 10 THEN <<n>> ELSE Append(Digits(n \div 10), n % 10)

RECURSIVE ZeroPad(_, _)
ZeroPad(ds, width) == IF Len(ds) >= width THEN ds ELSE ZeroPad(<<0>> \o ds, width)

\* The text of an invoice number, as the pair of its date part and the
\* digits of its sequence part ("INV-" and the dashes are fixed text).
InvoiceNumber(date_str, n) == <<date_str, ZeroPad(Digits(n), 4)>>

Blank == <<>>

RECURSIVE DigitsValue(_)
DigitsValue(ds) ==
    IF ds = <<>> THEN 0
    ELSE 10 * DigitsValue(SubSeq(ds, 1, Len(ds) - 1)) + ds[Len(ds)]

\* The sequence number NNNN an invoice number carries.
SeqOf(inv) == DigitsValue(inv[2])

----------------------------------------------------------------------------
(* Request-local state *)

NoStock == [quantity |-> 0, low_stock_threshold |-> 0]

IdleReq ==
    [pc |-> "idle", op |-> "none", customer |-> 0, category |-> "", quantity |-> 0,
     price_per_unit |-> 0, date_str |-> 0, invoice_number |-> Blank,
     stock |-> NoStock, result |-> "none"]

\* The request ends: an exception propagates or the view returns.
Finish(r, outcome) == [IdleReq EXCEPT !.pc = "done", !.op = r.op, !.result = outcome]

InFlight(pcs) == Cardinality({w \in Workers : req[w].pc \in pcs})

\* Crates added so far, and crates of the add_stock requests in flight.
RECURSIVE SumAdded(_)
SumAdded(records) ==
    IF records = <<>> THEN 0
    ELSE records[1].quantity_added + SumAdded(Tail(records))

RECURSIVE SumQuantity(_)
SumQuantity(ws) ==
    IF ws = {} THEN 0
    ELSE LET w == CHOOSE x \in ws : TRUE
         IN req[w].quantity + SumQuantity(ws \ {w})

AddStockPcs == {"add_get", "add_save", "add_record"}

CreatePcs == {"clean_stock", "clean_price", "save_date", "save_count",
              "save_stock", "save_remove", "save_insert"}

----------------------------------------------------------------------------
(* Store-level constraints *)

\* The alternative to QuantityCheck: an IntegerField, whose column carries no CHECK.
QuantityUnchecked(q) == TRUE

\* PositiveIntegerField: the column carries CHECK (quantity >= 0).
QuantityCheck(q) == q >= 0

\* The alternative to InvoiceUnique: the column declared without unique=True.
InvoiceUnconstrained(inv) == TRUE

\* invoice_number is unique=True: an INSERT of an existing value is rejected.
InvoiceUnique(inv) == \A t \in transactions : t.invoice_number # inv

----------------------------------------------------------------------------
Init ==
    /\ stock = [c \in {} |-> NoStock]
    /\ price = [c \in {} |-> 0]
    /\ stockRecords = <<>>
    /\ transactions = {}
    /\ nextPk = 1
    /\ today = 0
    /\ customers = Registered
    /\ req = [w \in Workers |-> IdleReq]

----------------------------------------------------------------------------
(* setup_initial_data: get_or_create of the Price and Stock rows *)

SetupInitialData ==
    /\ price' = [c \in Categories |->
                    IF c \in DOMAIN price THEN price[c] ELSE DefaultPrice(c)]
    /\ stock' = [c \in Categories |->
                    IF c \in DOMAIN stock THEN stock[c]
                    ELSE [quantity |-> DefaultQuantity(c),
                          low_stock_threshold |-> DefaultThreshold]]
    /\ \/ DOMAIN price # Categories
       \/ DOMAIN stock # Categories
    /\ UNCHANGED <<stockRecords, transactions, nextPk, today, customers, req>>

----------------------------------------------------------------------------
(* Stock.save(): UPDATE core_stock SET quantity = <F expression>,          *)
(* low_stock_threshold = <loaded value> WHERE category = c.  The F         *)
(* expression is evaluated by the store on the row's current quantity.     *)

\* The alternative to FQuantity: self.quantity = self.quantity + quantity, computed
\* by the worker on the row it loaded.
FQuantityFromLoaded(current, loaded, delta) == loaded + delta

FQuantity(current, loaded, delta) == current + delta

StockSave(c, loaded, delta) ==
    [stock EXCEPT ![c] =
        [quantity |-> FQuantity(stock[c].quantity, loaded.quantity, delta),
         low_stock_threshold |-> loaded.low_stock_threshold]]

----------------------------------------------------------------------------
(* views.add_stock -> Stock.add_stock *)

StartAddStock(w, c, q, cap) ==
    /\ req[w].pc = "idle"
    /\ SumAdded(stockRecords)
          + SumQuantity({x \in Workers : req[x].pc \in AddStockPcs}) + q <= cap
    /\ req' = [req EXCEPT ![w] =
                  [IdleReq EXCEPT !.pc = "add_get", !.op = "add_stock",
                                  !.category = c, !.quantity = q]]
    /\ UNCHANGED <<stock, price, stockRecords, transactions, nextPk, today, customers>>

\* StockRecordForm.is_valid() and Stock.objects.get(category=category)
AddStockGet(w) ==
    LET r == req[w] IN
    /\ r.pc = "add_get"
    /\ req' = [req EXCEPT ![w] =
                  IF r.quantity < 1
                  THEN Finish(r, "ValidationError: quantity")
                  ELSE IF r.category \notin DOMAIN stock
                  THEN Finish(r, "Stock category not found")
                  ELSE [r EXCEPT !.pc = "add_save", !.stock = stock[r.category]]]
    /\ UNCHANGED <<stock, price, stockRecords, transactions, nextPk, today, customers>>

\* self.quantity = F('quantity') + quantity; self.save()
AddStockSave(w) ==
    LET r == req[w] IN
    /\ r.pc = "add_save"
    /\ stock' = StockSave(r.category, r.stock, r.quantity)
    /\ req' = [req EXCEPT ![w].pc = "add_record"]
    /\ UNCHANGED <<price, stockRecords, transactions, nextPk, today, customers>>

\* self.refresh_from_db(); StockRecord.objects.create(...)
AddStockRecord(w) ==
    LET r == req[w] IN
    /\ r.pc = "add_record"
    /\ stockRecords' = Append(stockRecords,
                              [category |-> r.category, quantity_added |-> r.quantity])
    /\ req' = [req EXCEPT ![w] = Finish(r, "OK")]
    /\ UNCHANGED <<stock, price, transactions, nextPk, today, customers>>

----------------------------------------------------------------------------
(* views.create_transaction -> TransactionForm.clean -> Transaction.save *)

CreateBudget == (nextPk - 1) + InFlight(CreatePcs) < MaxTx

\* POST to the view; p is the price_per_unit the request submits.
StartCreateTransaction(w, k, c, q, p) ==
    /\ req[w].pc = "idle"
    /\ CreateBudget
    /\ k \in customers
    /\ req' = [req EXCEPT ![w] =
                  [IdleReq EXCEPT !.pc = "clean_stock", !.op = "create_transaction",
                                  !.customer = k,
                                  !.category = c, !.quantity = q,
                                  !.price_per_unit = p]]
    /\ UNCHANGED <<stock, price, stockRecords, transactions, nextPk, today, customers>>

\* A caller that builds a Transaction and saves it without the form
\* (the admin's add page, a shell); p is the price_per_unit it supplies.
StartTransactionSave(w, k, c, q, p) ==
    /\ req[w].pc = "idle"
    /\ CreateBudget
    /\ k \in customers
    /\ req' = [req EXCEPT ![w] =
                  [IdleReq EXCEPT !.pc = "save_date", !.op = "Transaction.save",
                                  !.customer = k,
                                  !.category = c, !.quantity = q,
                                  !.price_per_unit = p]]
    /\ UNCHANGED <<stock, price, stockRecords, transactions, nextPk, today, customers>>

\* The sufficiency test of both TransactionForm.clean and Stock.remove_stock.
Insufficient(available, requested) == available < requested

\* TransactionForm.clean, first query: Stock.objects.get and the stock check.
\* A quantity below 1 fails the field's MinValueValidator(1): cleaned_data
\* holds no quantity, clean() skips its checks and the form is invalid.
CleanStock(w) ==
    LET r == req[w] IN
    /\ r.pc = "clean_stock"
    /\ req' = [req EXCEPT ![w] =
                  IF r.quantity < 1
                  THEN Finish(r, "ValidationError: quantity")
                  ELSE IF r.category \notin DOMAIN stock
                  THEN Finish(r, "ValidationError: No stock record found")
                  ELSE IF Insufficient(stock[r.category].quantity, r.quantity)
                  THEN Finish(r, "ValidationError: Insufficient stock")
                  ELSE [r EXCEPT !.pc = "clean_price"]]
    /\ UNCHANGED <<stock, price, stockRecords, transactions, nextPk, today, customers>>

\* The alternative to CleanedPrice: the submitted price_per_unit is kept.
SubmittedPrice(submitted, current) == submitted

\* cleaned_data['price_per_unit'] = price.price
CleanedPrice(submitted, current) == current

\* TransactionForm.clean, second query: Price.objects.get; the price found
\* replaces the submitted price_per_unit.
CleanPrice(w) ==
    LET r == req[w] IN
    /\ r.pc = "clean_price"
    /\ req' = [req EXCEPT ![w] =
                  IF r.category \notin DOMAIN price
                  THEN Finish(r, "ValidationError: No price set")
                  ELSE [r EXCEPT !.pc = "save_date",
                                 !.price_per_unit =
                                     CleanedPrice(r.price_per_unit,
                                                  price[r.category])]]
    /\ UNCHANGED <<stock, price, stockRecords, transactions, nextPk, today, customers>>

\* Transaction.save: date_str = timezone.now().strftime('%Y%m%d')
SaveDate(w) ==
    LET r == req[w] IN
    /\ r.pc = "save_date"
    /\ req' = [req EXCEPT ![w] = [r EXCEPT !.pc = "save_count", !.date_str = today]]
    /\ UNCHANGED <<stock, price, stockRecords, transactions, nextPk, today, customers>>

\* Transaction.objects.filter(transaction_date__date=timezone.now().date()).count()
LastToday == Cardinality({t \in transactions : t.transaction_date = today})

NextSequence(last_today) == last_today + 1

SaveCount(w) ==
    LET r == req[w] IN
    /\ r.pc = "save_count"
    /\ req' = [req EXCEPT ![w] =
                  [r EXCEPT !.pc = "save_stock",
                            !.invoice_number =
                                InvoiceNumber(r.date_str, NextSequence(LastToday))]]
    /\ UNCHANGED <<stock, price, stockRecords, transactions, nextPk, today, customers>>

\* Stock.objects.get(category=self.egg_category) and the test that opens
\* Stock.remove_stock, made on the row just loaded.
RemoveStockCheck(loaded, requested) == Insufficient(loaded.quantity, requested)

SaveStock(w) ==
    LET r == req[w] IN
    /\ r.pc = "save_stock"
    /\ req' = [req EXCEPT ![w] =
                  IF r.category \notin DOMAIN stock
                  THEN Finish(r, "ValueError: No stock record found")
                  ELSE IF RemoveStockCheck(stock[r.category], r.quantity)
                  THEN Finish(r, "ValueError: Insufficient stock")
                  ELSE [r EXCEPT !.pc = "save_remove", !.stock = stock[r.category]]]
    /\ UNCHANGED <<stock, price, stockRecords, transactions, nextPk, today, customers>>

\* Stock.remove_stock: self.quantity = F('quantity') - quantity; self.save().
\* The store rejects the UPDATE when the new quantity breaks the column's
\* CHECK; the IntegrityError propagates out of the view.
SaveRemove(w) ==
    LET r == req[w]
        after == StockSave(r.category, r.stock, 0 - r.quantity)
    IN
    /\ r.pc = "save_remove"
    /\ IF QuantityCheck(after[r.category].quantity)
       THEN /\ stock' = after
            /\ req' = [req EXCEPT ![w].pc = "save_insert"]
       ELSE /\ stock' = stock
            /\ req' = [req EXCEPT ![w] = Finish(r, "IntegrityError: CHECK quantity")]
    /\ UNCHANGED <<price, stockRecords, transactions, nextPk, today, customers>>

\* The alternative to TotalAmount: the price taken in whole naira.
TotalAmountWhole(quantity, price_per_unit) ==
    quantity * ((price_per_unit \div 100) * 100)

\* self.total_amount = self.quantity * self.price_per_unit
TotalAmount(quantity, price_per_unit) == quantity * price_per_unit

\* The row super().save() inserts; transaction_date is auto_now_add.
NewTransaction(r) ==
    [pk |-> nextPk,
     customer |-> r.customer,
     egg_category |-> r.category,
     quantity |-> r.quantity,
     price_per_unit |-> r.price_per_unit,
     total_amount |-> TotalAmount(r.quantity, r.price_per_unit),
     transaction_date |-> today,
     invoice_number |-> r.invoice_number]

\* super().save(): INSERT INTO core_transaction
SaveInsert(w) ==
    LET r == req[w] IN
    /\ r.pc = "save_insert"
    /\ IF InvoiceUnique(r.invoice_number)
       THEN /\ transactions' = transactions \cup {NewTransaction(r)}
            /\ nextPk' = nextPk + 1
            /\ req' = [req EXCEPT ![w] = Finish(r, "OK")]
       ELSE /\ UNCHANGED <<transactions, nextPk>>
            /\ req' = [req EXCEPT ![w] =
                          Finish(r, "IntegrityError: UNIQUE invoice_number")]
    /\ UNCHANGED <<stock, price, stockRecords, today, customers>>

\* The view returns (redirect, re-rendered form or error page).
Respond(w) ==
    /\ req[w].pc = "done"
    /\ req' = [req EXCEPT ![w] = IdleReq]
    /\ UNCHANGED <<stock, price, stockRecords, transactions, nextPk, today, customers>>

----------------------------------------------------------------------------
(* Price maintenance and the admin site *)

\* views.update_price: get_object_or_404, PriceForm, Price.save
UpdatePrice(c, p) ==
    /\ c \in DOMAIN price
    /\ p >= 0
    /\ price[c] # p
    /\ price' = [price EXCEPT ![c] = p]
    /\ UNCHANGED <<stock, stockRecords, transactions, nextPk, today, customers, req>>

\* PriceAdmin: the admin's delete page of a Price row
AdminDeletePrice(c) ==
    /\ c \in DOMAIN price
    /\ price' = [x \in DOMAIN price \ {c} |-> price[x]]
    /\ UNCHANGED <<stock, stockRecords, transactions, nextPk, today, customers, req>>

\* TransactionAdmin: the admin's delete page of a Transaction row
AdminDeleteTransaction(t) ==
    /\ t \in transactions
    /\ transactions' = transactions \ {t}
    /\ UNCHANGED <<stock, price, stockRecords, nextPk, today, customers, req>>

\* The alternative to OnlyOnCreation: stock is taken on every save.
OnEverySave(pk) == TRUE

\* A Transaction that was never saved has no primary key.
NoPk == 0

\* "if not self.pk": Transaction.save takes stock only for a row that is
\* not persisted yet.
OnlyOnCreation(pk) == pk = NoPk

\* "if not self.invoice_number": Transaction.save numbers a row only when
\* it carries no invoice number.
InvoiceMissing(inv) == inv = Blank

\* TransactionAdmin: the admin's change page saves the persisted row t with
\* the submitted quantity q and price_per_unit p through Transaction.save;
\* super().save() is then an UPDATE of the row.
ResaveTransaction(t, q, p) ==
    LET c == t.egg_category
        number == IF InvoiceMissing(t.invoice_number)
                  THEN InvoiceNumber(today, NextSequence(LastToday))
                  ELSE t.invoice_number
        saved == [t EXCEPT !.quantity = q, !.price_per_unit = p,
                           !.total_amount = TotalAmount(q, p),
                           !.invoice_number = number]
    IN
    /\ t \in transactions
    /\ q >= 1
    /\ IF OnlyOnCreation(t.pk)
       THEN /\ c \in DOMAIN stock
            /\ ~RemoveStockCheck(stock[c], q)
            /\ stock' = StockSave(c, stock[c], 0 - q)
       ELSE stock' = stock
    /\ transactions' = (transactions \ {t}) \cup {saved}
    /\ UNCHANGED <<price, stockRecords, nextPk, today, customers, req>>

\* The alternative to Protected: a foreign key that protects nothing.
Unprotected(k) == FALSE

\* Transaction.customer is on_delete=models.PROTECT: a customer some
\* Transaction row references cannot be deleted.
Protected(k) == \E t \in transactions : t.customer = k

\* CustomerDeleteView receives the POST for customer k.
StartCustomerDelete(w, k) ==
    /\ req[w].pc = "idle"
    /\ req' = [req EXCEPT ![w] =
                  [IdleReq EXCEPT !.pc = "delete_customer",
                                  !.op = "customer_delete", !.customer = k]]
    /\ UNCHANGED <<stock, price, stockRecords, transactions, nextPk, today, customers>>

\* CustomerDeleteView: get_object (404 when the row is gone), then
\* Customer.delete, which raises ProtectedError before deleting anything
\* when a protecting row exists.
CustomerDelete(w) ==
    LET r == req[w] IN
    /\ r.pc = "delete_customer"
    /\ IF r.customer \notin customers
       THEN /\ customers' = customers
            /\ req' = [req EXCEPT ![w] = Finish(r, "Http404")]
       ELSE IF Protected(r.customer)
       THEN /\ customers' = customers
            /\ req' = [req EXCEPT ![w] = Finish(r, "ProtectedError")]
       ELSE /\ customers' = customers \ {r.customer}
            /\ req' = [req EXCEPT ![w] = Finish(r, "OK")]
    /\ UNCHANGED <<stock, price, stockRecords, transactions, nextPk, today>>

\* Thresholds the admin may submit for a Stock row.
Thresholds == {10, DefaultThreshold}

\* StockAdmin, list_editable = ['low_stock_threshold']: the changelist
\* saves the row with the submitted threshold.
AdminListEdit(c, t) ==
    /\ c \in DOMAIN stock
    /\ stock[c].low_stock_threshold # t
    /\ stock' = [stock EXCEPT ![c].low_stock_threshold = t]
    /\ UNCHANGED <<price, stockRecords, transactions, nextPk, today, customers, req>>

\* StockAdmin declares no fields and no readonly_fields: the change page
\* of a Stock row offers every editable field of the model, quantity
\* included, and saves the submitted values.
AdminChangeStock(c, q, t) ==
    /\ c \in DOMAIN stock
    /\ QuantityCheck(q)
    /\ stock[c] # [quantity |-> q, low_stock_threshold |-> t]
    /\ stock' = [stock EXCEPT ![c] = [quantity |-> q, low_stock_threshold |-> t]]
    /\ UNCHANGED <<price, stockRecords, transactions, nextPk, today, customers, req>>

\* Midnight passes.
Tick ==
    /\ today < MaxDay
    /\ today' = today + 1
    /\ UNCHANGED <<stock, price, stockRecords, transactions, nextPk, customers, req>>

----------------------------------------------------------------------------
(* The steps of the requests, by the categories the requests name *)

AddStockSteps(w, cats, cap) ==
    \/ \E c \in cats, q \in Quantities : StartAddStock(w, c, q, cap)
    \/ AddStockGet(w)
    \/ AddStockSave(w)
    \/ AddStockRecord(w)

FormSteps(w, cats, buyers) ==
    \/ \E k \in buyers, c \in cats, q \in Quantities, p \in PriceValues :
          StartCreateTransaction(w, k, c, q, p)
    \/ CleanStock(w)
    \/ CleanPrice(w)

SaveSteps(w) ==
    \/ SaveDate(w)
    \/ SaveCount(w)
    \/ SaveStock(w)
    \/ SaveRemove(w)
    \/ SaveInsert(w)

\* No request is being served.
Quiet == \A w \in Workers : req[w].pc = "idle"

----------------------------------------------------------------------------
(* Spec: concurrent request workers selling and restocking one category,   *)
(* the admin deleting transactions, midnight passing at any moment.        *)

Next ==
    \/ SetupInitialData
    \/ \E w \in Workers : AddStockSteps(w, Traded, MaxStock)
    \/ \E w \in Workers : FormSteps(w, Traded, Regulars)
    \/ \E w \in Workers : SaveSteps(w)
    \/ \E w \in Workers : Respond(w)
    \/ \E t \in transactions : AdminDeleteTransaction(t)
    \/ Tick

Spec == Init /\ [][Next]_vars

(* SpecSales: the same workers with nothing but add_stock and              *)
(* create_transaction requests, within one day.                            *)

NextSales ==
    \/ SetupInitialData
    \/ \E w \in Workers : AddStockSteps(w, Traded, MaxStock)
    \/ \E w \in Workers : FormSteps(w, Traded, Regulars)
    \/ \E w \in Workers : SaveSteps(w)
    \/ \E w \in Workers : Respond(w)

SpecSales == Init /\ [][NextSales]_vars

(* SpecAdd: concurrent add_stock requests only. *)

NextAdd ==
    \/ SetupInitialData
    \/ \E w \in Workers : AddStockSteps(w, Requested, MaxStock)
    \/ \E w \in Workers : Respond(w)

SpecAdd == Init /\ [][NextAdd]_vars

(* SpecRace: two create_transaction requests for the same quantity q of    *)
(* one category have just been received; the category holds S crates,     *)
(* q <= S < 2q, enough for one of the two sales.  The requests run to      *)
(* their ends in every interleaving of their queries.                      *)

InitRace ==
    \E c \in Requested, q \in Quantities \ {0}, p \in PriceValues :
    \E S \in q..(2 * q - 1) :
        /\ stock = [x \in Categories |->
                       [quantity |-> IF x = c THEN S ELSE DefaultQuantity(x),
                        low_stock_threshold |-> DefaultThreshold]]
        /\ price = [x \in Categories |-> DefaultPrice(x)]
        /\ stockRecords = <<[category |-> c, quantity_added |-> S]>>
        /\ transactions = {}
        /\ nextPk = 1
        /\ today = 0
        /\ customers = Registered
        /\ req = [w \in Workers |->
                     [IdleReq EXCEPT !.pc = "clean_stock",
                                     !.op = "create_transaction",
                                     !.customer = CHOOSE k \in Regulars : TRUE,
                                     !.category = c,
                                     !.quantity = q, !.price_per_unit = p]]

NextRace ==
    \/ \E w \in Workers : CleanStock(w)
    \/ \E w \in Workers : CleanPrice(w)
    \/ \E w \in Workers : SaveSteps(w)

SpecRace == InitRace /\ [][NextRace]_vars

(* SpecSeq: one worker; every request runs to its end before anything      *)
(* else happens.  All operations of the model, the direct callers of       *)
(* Transaction.save and price maintenance included.                        *)

NextSeq ==
    \/ Quiet /\ SetupInitialData
    \/ \E w \in Sequential : AddStockSteps(w, Traded, MaxSeqStock)
    \/ \E w \in Sequential : FormSteps(w, Traded, Regulars)
    \/ \E w \in Sequential, k \in Regulars, c \in Traded, q \in Quantities \ {0},
          p \in PriceValues :
          StartTransactionSave(w, k, c, q, p)
    \/ \E w \in Sequential : SaveSteps(w)
    \/ \E w \in Sequential : Respond(w)
    \/ Quiet /\ \E c \in Traded, p \in PriceValues : UpdatePrice(c, p)
    \/ Quiet /\ \E c \in Traded : AdminDeletePrice(c)
    \/ Quiet /\ \E t \in transactions : AdminDeleteTransaction(t)
    \/ Quiet /\ Tick

SpecSeq == Init /\ [][NextSeq]_vars

----------------------------------------------------------------------------
(* SpecEdit: one worker restocking and selling through the view, and the   *)
(* admin saving persisted transactions again with other quantities and     *)
(* prices, between requests.                                               *)

NextEdit ==
    \/ Quiet /\ SetupInitialData
    \/ \E w \in Sequential : AddStockSteps(w, Traded, MaxSeqStock)
    \/ \E w \in Sequential : FormSteps(w, Traded, Regulars)
    \/ \E w \in Sequential : SaveSteps(w)
    \/ \E w \in Sequential : Respond(w)
    \/ Quiet /\ \E t \in transactions, q \in Quantities \ {0} :
                  \E p \in PriceValues \cup {t.price_per_unit} :
                      ResaveTransaction(t, q, p)

SpecEdit == Init /\ [][NextEdit]_vars

----------------------------------------------------------------------------
(* SpecAdmin: one worker restocking and selling while the admin edits      *)
(* Stock rows at any moment; prices are maintained and setup_initial_data  *)
(* runs between requests.                                                  *)

NextAdmin ==
    \/ Quiet /\ SetupInitialData
    \/ \E w \in Sequential : AddStockSteps(w, Traded, MaxStock)
    \/ \E w \in Sequential : FormSteps(w, Traded, Regulars)
    \/ \E w \in Sequential : SaveSteps(w)
    \/ \E w \in Sequential : Respond(w)
    \/ Quiet /\ \E c \in Traded, p \in PriceValues : UpdatePrice(c, p)
    \/ Quiet /\ \E c \in Traded : AdminDeletePrice(c)
    \/ \E c \in Traded, t \in Thresholds : AdminListEdit(c, t)
    \/ \E c \in Traded, q \in Quantities, t \in Thresholds : AdminChangeStock(c, q, t)

SpecAdmin == Init /\ [][NextAdmin]_vars

----------------------------------------------------------------------------
(* SpecCustomer: one worker restocking, selling to any registered customer *)
(* and deleting customers, one request after the other.                    *)

NextCustomer ==
    \/ Quiet /\ SetupInitialData
    \/ \E w \in Sequential : AddStockSteps(w, Traded, MaxStock)
    \/ \E w \in Sequential : FormSteps(w, Traded, Registered)
    \/ \E w \in Sequential : SaveSteps(w)
    \/ \E w \in Sequential, k \in Registered : StartCustomerDelete(w, k)
    \/ \E w \in Sequential : CustomerDelete(w)
    \/ \E w \in Sequential : Respond(w)

SpecCustomer == Init /\ [][NextCustomer]_vars

----------------------------------------------------------------------------
(* Totals the properties speak of *)

\* Crates the StockRecord rows of category c add up to.
RECURSIVE AddedTo(_, _)
AddedTo(c, records) ==
    IF records = <<>> THEN 0
    ELSE (IF records[1].category = c THEN records[1].quantity_added ELSE 0)
         + AddedTo(c, Tail(records))

\* Crates the Transaction rows ts sell.
RECURSIVE Sold(_)
Sold(ts) ==
    IF ts = {} THEN 0
    ELSE LET t == CHOOSE x \in ts : TRUE
         IN t.quantity + Sold(ts \ {t})

SoldOf(c) == Sold({t \in transactions : t.egg_category = c})

\* Every request has run to its end.
Settled == \A w \in Workers : req[w].pc \in {"idle", "done"}

----------------------------------------------------------------------------
(* C1 *)

\* C1: in every reachable state, whatever the interleaving of the add_stock
\* and create_transaction requests of the concurrent workers, the quantity
\* of every Stock row is >= 0.
C1_QuantityNeverNegative == \A c \in DOMAIN stock : stock[c].quantity >= 0

\* Two sales raced for the last crates: one passed both sufficiency tests on
\* a stale row and its decrement was refused by the store.
C1_Witness ==
    \E w \in Workers :
        /\ req[w].pc = "done"
        /\ req[w].result = "IntegrityError: CHECK quantity"
        /\ \E c \in Traded : stock[c].quantity = 0 /\ SoldOf(c) > 0

----------------------------------------------------------------------------
(* C2 *)

\* C2: once every add_stock and create_transaction request has run to its
\* end, failed ones included, the quantity of each Stock row is its initial
\* quantity plus the crates added by add_stock minus the quantities of the
\* persisted Transaction rows of its category.
C2_QuantityIsAddedMinusSold ==
    Settled =>
        \A c \in DOMAIN stock :
            stock[c].quantity
                = DefaultQuantity(c) + AddedTo(c, stockRecords) - SoldOf(c)

----------------------------------------------------------------------------
(* C3 *)

\* The errors that tell the user the stock does not cover the sale:
\* TransactionForm.clean's ValidationError and remove_stock's ValueError.
InsufficientStockErrors ==
    {"ValidationError: Insufficient stock", "ValueError: Insufficient stock"}

\* Every request of the race has ended.
RaceOver == \A w \in Workers : req[w].pc = "done"

\* C3: of two concurrent create_transaction requests for the same quantity
\* q of a category holding S crates, q <= S < 2q, exactly one persists a
\* Transaction and leaves S - q crates, and the other fails with an
\* insufficient-stock error without changing Stock, in every interleaving.
C3_OneSaleOneInsufficientStock ==
    RaceOver =>
        /\ \E w1, w2 \in Workers :
              /\ w1 # w2
              /\ req[w1].result = "OK"
              /\ req[w2].result \in InsufficientStockErrors
        /\ Cardinality(transactions) = 1
        /\ \A c \in DOMAIN stock :
              stock[c].quantity = AddedTo(c, stockRecords) - SoldOf(c)

----------------------------------------------------------------------------
(* C4 *)

\* Crates of the add_stock requests whose UPDATE of category c is applied
\* and whose StockRecord is not yet inserted.
Unrecorded(c) ==
    SumQuantity({w \in Workers : req[w].pc = "add_record" /\ req[w].category = c})

\* C4: concurrent add_stock calls lose no update: the quantity of a Stock
\* row is always what the add_stock calls applied to it add up to, so two
\* calls with deltas a and b that started from quantity q leave q + a + b,
\* and each call inserts exactly one StockRecord, carrying its own delta.
C4_NoLostUpdate ==
    /\ [](\A c \in DOMAIN stock :
            stock[c].quantity
                = DefaultQuantity(c) + AddedTo(c, stockRecords) + Unrecorded(c))
    /\ [][\A w \in Workers :
            req[w].pc = "add_record" /\ req'[w].pc # "add_record" =>
                stockRecords' = Append(stockRecords,
                                       [category |-> req[w].category,
                                        quantity_added |-> req[w].quantity])]_vars

\* Two add_stock calls loaded the same row, both UPDATEs are applied, and
\* the row holds the loaded quantity plus both deltas.
C4_Witness ==
    \E w1, w2 \in Workers :
        /\ w1 # w2
        /\ req[w1].pc = "add_record" /\ req[w2].pc = "add_record"
        /\ req[w1].category = req[w2].category
        /\ req[w1].stock.quantity = req[w2].stock.quantity
        /\ stock[req[w1].category].quantity
              = req[w1].stock.quantity + req[w1].quantity + req[w2].quantity

----------------------------------------------------------------------------
(* C5 *)

\* Crates of the creations whose stock decrement of category c is applied
\* and whose row is not yet inserted.
Uninserted(c) ==
    SumQuantity({w \in Workers : req[w].pc = "save_insert" /\ req[w].category = c})

\* Crates taken out of the Stock row of category c so far.
Removed(c) ==
    DefaultQuantity(c) + AddedTo(c, stockRecords) + Unrecorded(c) - stock[c].quantity

\* C5: a creation is one atomic unit: in every reachable state the crates
\* taken out of a Stock row are those of the persisted Transaction rows of
\* its category and of the creations still between their decrement and
\* their insert; a creation that fails after its decrement (its insert
\* refused by the unique constraint on invoice_number) gives the crates back.
C5_DecrementsMatchRows ==
    \A c \in DOMAIN stock : Removed(c) = SoldOf(c) + Uninserted(c)

----------------------------------------------------------------------------
(* C6 *)

\* C6: no two persisted Transaction rows carry the same invoice_number; a
\* creation whose invoice number a persisted row already carries fails
\* with the store's IntegrityError and leaves the table as it was.
C6_InvoiceNumbersUnique ==
    /\ [](\A t1, t2 \in transactions :
            t1.invoice_number = t2.invoice_number => t1 = t2)
    /\ [][\A w \in Workers :
            /\ req[w].pc = "save_insert"
            /\ req'[w] # req[w]
            /\ \E t \in transactions : t.invoice_number = req[w].invoice_number
            => /\ transactions' = transactions
               /\ req'[w].pc = "done"
               /\ req'[w].result = "IntegrityError: UNIQUE invoice_number"]_vars

\* Two creations ran at the same time: one persisted its row, the other was
\* refused for carrying the same invoice number.
C6_Witness ==
    \E w1, w2 \in Workers :
        /\ w1 # w2
        /\ req[w1].pc = "done" /\ req[w1].result = "OK"
        /\ req[w1].op = "create_transaction"
        /\ req[w2].pc = "done"
        /\ req[w2].result = "IntegrityError: UNIQUE invoice_number"
        /\ Cardinality(transactions) = 1

----------------------------------------------------------------------------
(* C7 *)

\* The persisted rows whose invoice number carries the date part of inv.
SameDay(inv) == {t \in transactions : t.invoice_number[1] = inv[1]}

\* C7: the invoice number Transaction.save assigns carries sequence number
\* 0001 when no persisted row carries its date, and otherwise a sequence
\* number greater than that of every persisted row of its date, after any
\* sequence of creations and deletions.
C7_SequenceIncreases ==
    [][\A w \in Workers :
          req[w].pc = "save_count" /\ req'[w].pc = "save_stock" =>
              LET inv == req'[w].invoice_number IN
              /\ SameDay(inv) = {} => inv[2] = <<0, 0, 0, 1>>
              /\ \A t \in SameDay(inv) : SeqOf(t.invoice_number) < SeqOf(inv)]_vars

----------------------------------------------------------------------------
(* C8 *)

\* The request of worker w asks for more crates than its category's Stock
\* row holds.
Overdrawn(w) ==
    /\ req[w].category \in DOMAIN stock
    /\ req[w].quantity >= 1
    /\ stock[req[w].category].quantity < req[w].quantity

\* C8: a creation that asks for more than the current Stock.quantity of its
\* category fails with an insufficient-stock error and leaves Stock and the
\* Transaction rows unchanged, at each point where the code can reject it:
\* the form's check, the check that opens remove_stock, and the UPDATE
\* remove_stock issues.
C8_OverdrawRejected ==
    [][\A w \in Workers :
          /\ req[w].pc \in {"clean_stock", "save_stock", "save_remove"}
          /\ req'[w] # req[w]
          /\ Overdrawn(w)
          => /\ req'[w].pc = "done"
             /\ req'[w].result \in InsufficientStockErrors
             /\ stock' = stock
             /\ transactions' = transactions]_vars

----------------------------------------------------------------------------
(* C9 *)

\* C9: a creation for a category that has no Price row makes no persisted
\* change and does not succeed, whether it came through the form or called
\* Transaction.save directly; the form reports the missing price.
C9_NoPriceNoChange ==
    [][\A w \in Workers :
          /\ req[w].pc \in CreatePcs
          /\ req'[w] # req[w]
          /\ req[w].category \notin DOMAIN price
          => /\ stock' = stock
             /\ transactions' = transactions
             /\ req'[w].result # "OK"
             /\ req[w].pc = "clean_price" =>
                    req'[w].result = "ValidationError: No price set"]_vars

----------------------------------------------------------------------------
(* C10 *)

\* The request of worker w meets the precondition of a sale: at least one
\* crate, no more than the Stock row holds, and a Price row exists.
Sellable(w) ==
    /\ req[w].category \in DOMAIN stock
    /\ req[w].category \in DOMAIN price
    /\ req[w].quantity >= 1
    /\ req[w].quantity <= stock[req[w].category].quantity

\* C10: with no other operation running, a create_transaction request for q
\* crates, 1 <= q <= Stock.quantity, of a category with a Price row p passes
\* the form, takes exactly q from that category's Stock row and nothing from
\* the others, and inserts exactly one row with quantity q, price_per_unit p
\* and total_amount q*p, numbered 0001 when it is the day's first row.
C10_SaleSucceeds ==
    [][\A w \in Workers :
          req[w].op = "create_transaction" /\ req'[w] # req[w] =>
              LET r == req[w] IN
              /\ r.pc = "clean_stock" /\ Sellable(w) => req'[w].pc = "clean_price"
              /\ r.pc = "clean_price" /\ Sellable(w) =>
                     /\ req'[w].pc = "save_date"
                     /\ req'[w].price_per_unit = price[r.category]
              /\ r.pc = "save_stock" => req'[w].pc = "save_remove"
              /\ r.pc = "save_remove" =>
                     /\ req'[w].pc = "save_insert"
                     /\ stock' = [stock EXCEPT ![r.category].quantity = @ - r.quantity]
              /\ r.pc = "save_insert" =>
                     /\ req'[w].result = "OK"
                     /\ stock' = stock
                     /\ \E t \in transactions' \ transactions :
                           /\ transactions' = transactions \cup {t}
                           /\ t.egg_category = r.category
                           /\ t.quantity = r.quantity
                           /\ t.price_per_unit = price[r.category]
                           /\ t.total_amount = r.quantity * price[r.category]
                           /\ LastToday = 0 => t.invoice_number[2] = <<0, 0, 0, 1>>]_vars

----------------------------------------------------------------------------
(* C11 *)

\* C11: every persisted Transaction row holds total_amount = quantity *
\* price_per_unit, in whole hundredths, after any sequence of creations and
\* of saves of persisted rows with other quantities and prices.
C11_TotalIsProduct ==
    \A t \in transactions : t.total_amount = t.quantity * t.price_per_unit

\* A row sold at the Price row's value was saved again with another price
\* and two crates.
C11_Witness ==
    \E t \in transactions :
        /\ t.egg_category \in DOMAIN price
        /\ t.price_per_unit = 99950
        /\ price[t.egg_category] # t.price_per_unit
        /\ t.quantity = 2
        /\ t.total_amount = 199900

----------------------------------------------------------------------------
(* C16 *)

----------------------------------------------------------------------------
(* C12 *)

\* C12: the row a create_transaction request inserts carries the Price
\* row's value of its category as price_per_unit, whatever price the
\* request submitted, and a change of a Price row leaves every persisted
\* Transaction row as it was.
C12_PriceFrozen ==
    [][/\ \A w \in Workers :
             /\ req[w].op = "create_transaction"
             /\ req[w].pc = "save_insert"
             /\ req'[w].result = "OK"
             => /\ req[w].category \in DOMAIN price
                /\ \E t \in transactions' \ transactions :
                      /\ transactions' = transactions \cup {t}
                      /\ t.price_per_unit = price[req[w].category]
                      /\ t.total_amount = t.quantity * price[req[w].category]
       /\ price' # price => transactions' = transactions]_vars

\* A row sold at the Price row's value, not at the submitted price, and
\* the Price row updated since.
C12_Witness ==
    \E t \in transactions :
        /\ t.egg_category \in DOMAIN price
        /\ t.price_per_unit = DefaultPrice(t.egg_category)
        /\ t.price_per_unit \notin PriceValues
        /\ t.total_amount = t.quantity * DefaultPrice(t.egg_category)
        /\ price[t.egg_category] \in PriceValues

----------------------------------------------------------------------------
(* C13 *)

\* C13: add_stock takes quantities above 0 only and changes the Stock row
\* and the ledger as one unit: a request with quantity <= 0 changes
\* neither, and in every reachable state the quantity_added of the
\* StockRecord rows of a category sum to what was added to its Stock row.
C13_LedgerMatchesStock ==
    /\ [](\A c \in DOMAIN stock :
            stock[c].quantity = DefaultQuantity(c) + AddedTo(c, stockRecords))
    /\ [][\A w \in Workers :
            /\ req[w].pc = "add_get"
            /\ req'[w] # req[w]
            /\ req[w].quantity <= 0
            => /\ req'[w].result = "ValidationError: quantity"
               /\ stock' = stock
               /\ stockRecords' = stockRecords]_vars

----------------------------------------------------------------------------
(* C15 *)

\* Worker w is at the UPDATE of Stock.add_stock or of Stock.remove_stock on
\* the row of category c, and takes its step.
StockOperationStep(w, c) ==
    /\ req[w].pc \in {"add_save", "save_remove"}
    /\ req[w].category = c
    /\ req'[w] # req[w]

\* C15: the quantity of an existing Stock row changes only in a step of
\* Stock.add_stock or Stock.remove_stock on that row; price updates,
\* setup_initial_data on existing rows and the admin's edits of Stock rows
\* leave every quantity as it was.
C15_OnlyStockOperationsChangeQuantity ==
    [][\A c \in DOMAIN stock \cap DOMAIN stock' :
          stock'[c].quantity # stock[c].quantity =>
              \E w \in Workers : StockOperationStep(w, c)]_vars

----------------------------------------------------------------------------
(* C17 *)

\* C17: the UPDATE of Stock.add_stock and of Stock.remove_stock leaves the
\* low_stock_threshold of its row as the store holds it, also when the
\* threshold was changed after the operation loaded the row.
C17_StockOperationsKeepThreshold ==
    [][\A w \in Workers, c \in DOMAIN stock :
          StockOperationStep(w, c) =>
              stock'[c].low_stock_threshold = stock[c].low_stock_threshold]_vars

----------------------------------------------------------------------------
(* C14 *)

\* C14: deleting a Customer that a Transaction row references fails and
\* leaves the Customer and every Transaction row in place; deleting a
\* Customer that no Transaction row references succeeds and removes that
\* Customer only.  Hence every Transaction row references a Customer row.
C14_CustomerDeleteProtected ==
    /\ [](\A t \in transactions : t.customer \in customers)
    /\ [][\A w \in Workers :
            /\ req[w].pc = "delete_customer"
            /\ req'[w] # req[w]
            /\ req[w].customer \in customers
            => /\ transactions' = transactions
               /\ IF \E t \in transactions : t.customer = req[w].customer
                  THEN /\ req'[w].result = "ProtectedError"
                       /\ customers' = customers
                  ELSE /\ req'[w].result = "OK"
                       /\ customers' = customers \ {req[w].customer}]_vars

\* The customer without purchases was deleted, and the deletion of the one
\* with a purchase was refused.
C14_Witness ==
    \E w \in Workers, k \in customers :
        /\ req[w].pc = "done"
        /\ req[w].op = "customer_delete"
        /\ req[w].result = "ProtectedError"
        /\ customers = {k}
        /\ \E t \in transactions : t.customer = k

====
